---- MODULE Spec2Model ----
(***************************************************************************)
(* The feed aggregator of mytube: GET /api/videos (aggregator version),    *)
(* its per-user fetch-state cache and the paged upstream client it drives. *)
(*                                                                         *)
(* A request is a process: it suspends at `await prisma.channel.findMany`  *)
(* and at every `await fetchNextPages(...)`; the code between two awaits   *)
(* runs atomically on the event loop and is one action here.               *)
(***************************************************************************)
EXTENDS Integers, Sequences, FiniteSets, Bags, TLC

VARIABLES
  scenario,   \* which upstream catalogue the remote API serves (fixed per run)
  channels,   \* prisma.channel rows per user: sequence of [channelId, isEnabled]
  cache,      \* videoCache: user -> entry (present flag stands for Map membership)
  now,        \* Date.now()
  req,        \* per request slot: position and locals of one GET /api/videos
  prev,       \* history: the response the slot held when its next request began
  marked,     \* history: per user, sources whose latest successful page had no next token
  lastPut,    \* history: per user, the last setCachedVideos not followed by invalidateCache
  epoch,      \* history: per user, how many changes of the channel rows were committed
  chg,        \* a POST/DELETE/PATCH /api/channels between its database write and its return
  clf,        \* one duration as the remote API gave it, and how it was classified
  store,      \* prisma.video: the bag of stored rows
  bulk,       \* one POST that refreshes all enabled channels, with its per-channel tasks
  one,        \* one POST /api/channels/[channelId]/fetch in refresh mode
  lastFetched,\* prisma.channel.lastFetched per user and channel (Absent: null)
  call,       \* one getChannelVideosPage: its position between its remote calls
  home        \* the page of the client: the tab it fills and the items it shows

feedVars == <<scenario, channels, cache, now, req, prev, marked, lastPut, epoch, chg>>

refreshVars == <<store, bulk, one>>

clientVars == <<lastFetched, call, home>>

vars ==
  <<scenario, channels, cache, now, req, prev, marked, lastPut, epoch, chg, clf,
    store, bulk, one, lastFetched, call, home>>

(***************************************************************************)
(* Program constants                                                       *)
(***************************************************************************)
PAGE_SIZE_PER_CHANNEL == 20

MAX_ROUNDS_PER_REQUEST == 3

CACHE_DURATION == 5 * 60 * 1000

(***************************************************************************)
(* Bounds and input domains                                                *)
(***************************************************************************)
MaxPage == 2

MaxTicks == 2

MaxMinutes == 3

MaxLen == 3

MaxChanges == 1

Users == {"u1", "u2"}

Slots == {1, 2}

ChannelNames == {"A", "B"}

Types == {"all", "videos", "shorts"}

Pages == 1..MaxPage

NoToken == 0

NoPlaylist == "null"

Absent == 0 - 1

Outcomes == {"ok", "quota", "error"}

EmptyFn == [x \in {} |-> 0]

\* the clock is read at steps of half the time-to-live
TickStep == CACHE_DURATION \div 2

Min(a, b) == IF a < b THEN a ELSE b

Range(s) == {s[i] : i \in 1..Len(s)}

(***************************************************************************)
(* Upstream catalogue.  A video is what getChannelVideosPage builds for    *)
(* one playlist item; publishedAt is new Date(publishedAt).getTime().      *)
(* A page carries the token of the page that follows it (NoToken: none).   *)
(* The page size of the feed (VIDEOS_PER_PAGE, 12 in the code) is a        *)
(* parameter of the scenario, so that small catalogues span several pages. *)
(***************************************************************************)
Vid(id, ch, t, short) ==
  [id |-> id, channelId |-> ch, publishedAt |-> t, isShort |-> short]

Pg(videos, next) == [videos |-> videos, nextPageToken |-> next]

\* The paging scenario of the specification: A = [T4,T3],[T2,T1]; B = [T2.5].
T4 == Vid("T4", "A", 40, FALSE)
T3 == Vid("T3", "A", 30, FALSE)
T25 == Vid("T25", "B", 25, TRUE)
T2 == Vid("T2", "A", 20, TRUE)
T1 == Vid("T1", "A", 10, FALSE)

Scenarios ==
  [ paging |->
      [ perPage |-> 3,
        pages |-> [A |-> <<Pg(<<T4, T3>>, 2), Pg(<<T2, T1>>, NoToken)>>,
                   B |-> <<Pg(<<T25>>, NoToken)>>] ],
    \* the same catalogue under the page size of the code
    whole |->
      [ perPage |-> 12,
        pages |-> [A |-> <<Pg(<<T4, T3>>, 2), Pg(<<T2, T1>>, NoToken)>>,
                   B |-> <<Pg(<<T25>>, NoToken)>>] ],
    \* as above, but A's listing ends with an empty page
    trailing |->
      [ perPage |-> 3,
        pages |-> [A |-> <<Pg(<<T4, T3>>, 2), Pg(<<T2, T1>>, 3), Pg(<<>>, NoToken)>>,
                   B |-> <<Pg(<<T25>>, NoToken)>>] ],
    \* A always returns a next token (its second page points at itself)
    looping |->
      [ perPage |-> 3,
        pages |-> [A |-> <<Pg(<<T4>>, 2), Pg(<<T3>>, 2)>>,
                   B |-> <<Pg(<<T25>>, NoToken)>>] ],
    \* A has one short behind four pages of long videos; B does not exist upstream
    deep |->
      [ perPage |-> 1,
        pages |-> [A |-> <<Pg(<<T4>>, 2), Pg(<<T3>>, 3), Pg(<<T1>>, 4),
                           Pg(<<Vid("L0", "A", 5, FALSE)>>, 5), Pg(<<T2>>, NoToken)>>,
                   B |-> <<>>] ],
    \* the refresh scenario of the specification: one page of A lists four items
    known |->
      [ perPage |-> 3,
        pages |-> [A |-> <<Pg(<<T4, T3, T2, T1>>, 2), Pg(<<Vid("L0", "A", 5, FALSE)>>, NoToken)>>,
                   B |-> <<Pg(<<T25>>, NoToken)>>] ],
    \* A has one old short; B has a newer short behind four pages of long videos
    sparse |->
      [ perPage |-> 1,
        pages |-> [A |-> <<Pg(<<Vid("S10", "A", 10, TRUE)>>, NoToken)>>,
                   B |-> <<Pg(<<Vid("L39", "B", 39, FALSE)>>, 2),
                           Pg(<<Vid("L37", "B", 37, FALSE)>>, 3),
                           Pg(<<Vid("L36", "B", 36, FALSE)>>, 4),
                           Pg(<<Vid("L35", "B", 35, FALSE)>>, 5),
                           Pg(<<Vid("S34", "B", 34, TRUE)>>, NoToken)>>] ],
    \* overlapping pages, an item listed by both sources, equal timestamps,
    \* a page that is not sorted and repeats an item, an empty page with a token
    overlap |->
      [ perPage |-> 2,
        pages |-> [A |-> <<Pg(<<T3, T4, T3>>, 2), Pg(<<T3, T2>>, NoToken)>>,
                   B |-> <<Pg(<<>>, 2), Pg(<<T25, T4, Vid("T2b", "B", 20, FALSE)>>, NoToken)>>] ]
  ]

ScenarioIds == DOMAIN Scenarios

UploadsPlaylist == [A |-> "UU_A", B |-> "UU_B"]

(***************************************************************************)
(* Upstream Source Client: getChannelVideosPage as seen by its caller.     *)
(* outcome "ok": the page the token names (the first page for NoToken);    *)
(* a channel the remote API does not know yields an empty page with no     *)
(* playlist and no token.  "quota"/"error": the call throws.               *)
(***************************************************************************)
getChannelVideosPage(scn, channelId, maxResults, pageToken, playlistId) ==
  LET pages == Scenarios[scn].pages[channelId]
      idx == IF pageToken = NoToken THEN 1 ELSE pageToken
  IN IF Len(pages) = 0
       THEN [playlistId |-> NoPlaylist, videos |-> <<>>, nextPageToken |-> NoToken]
       ELSE [playlistId |-> UploadsPlaylist[channelId],
             videos |-> SubSeq(pages[idx].videos, 1, Min(maxResults, Len(pages[idx].videos))),
             nextPageToken |-> pages[idx].nextPageToken]

(***************************************************************************)
(* Short-form classifier.  A duration is a string, here the sequence of    *)
(* its characters.  String.prototype.match with the pattern                *)
(*   /PT(?:(\d+)H)?(?:(\d+)M)?(?:(\d+)S)?/                                 *)
(* finds the leftmost "PT" (the pattern is not anchored and every group is *)
(* optional, so the match cannot fail after "PT"); a group captures the    *)
(* longest run of digits at its position if the unit letter follows it.    *)
(***************************************************************************)
DigitChars == <<"0", "1", "2", "3", "4", "5", "6", "7", "8", "9">>

IsDigit(ch) == \E k \in 1..10 : DigitChars[k] = ch

DigitValue(ch) == (CHOOSE k \in 1..10 : DigitChars[k] = ch) - 1

\* parseInt(text, 10) for a run of digits
RECURSIVE ParseDigits(_, _)
ParseDigits(text, acc) ==
  IF text = <<>> THEN acc
  ELSE ParseDigits(Tail(text), acc * 10 + DigitValue(Head(text)))

\* Number.prototype.toString for n >= 0
RECURSIVE ToDigits(_)
ToDigits(n) ==
  IF n < 10 THEN <<DigitChars[n + 1]>>
  ELSE Append(ToDigits(n \div 10), DigitChars[(n % 10) + 1])

\* index of the first "PT" in the string, 0 if there is none
FirstPT(duration) ==
  LET at == {i \in 1..Len(duration) - 1 : duration[i] = "P" /\ duration[i + 1] = "T"}
  IN IF at = {} THEN 0 ELSE CHOOSE i \in at : \A j \in at : i <= j

\* length of the run of digits that starts at index i
RECURSIVE DigitRun(_, _)
DigitRun(duration, i) ==
  IF i <= Len(duration) /\ IsDigit(duration[i]) THEN 1 + DigitRun(duration, i + 1) ELSE 0

\* (?:(\d+)U)? at index i: the capture ("" for undefined) and where the match goes on
Group(duration, i, unit) ==
  LET n == DigitRun(duration, i)
  IN IF n >= 1 /\ i + n <= Len(duration) /\ duration[i + n] = unit
       THEN [text |-> SubSeq(duration, i, i + n - 1), next |-> i + n + 1]
       ELSE [text |-> <<>>, next |-> i]

\* duration.match(...): null, or the three captures
Match(duration) ==
  LET p == FirstPT(duration)
      h == Group(duration, p + 2, "H")
      m == Group(duration, h.next, "M")
      sec == Group(duration, m.next, "S")
  IN IF p = 0 THEN [found |-> FALSE, g1 |-> <<>>, g2 |-> <<>>, g3 |-> <<>>]
     ELSE [found |-> TRUE, g1 |-> h.text, g2 |-> m.text, g3 |-> sec.text]

\* parseInt(capture || "0", 10)
Captured(text) == ParseDigits(IF text = <<>> THEN <<"0">> ELSE text, 0)

TotalSeconds(match) ==
  Captured(match.g1) * 3600 + Captured(match.g2) * 60 + Captured(match.g3)

\* no duration under classification
NoClassification ==
  [pc |-> "none", kind |-> "none", h |-> Absent, m |-> Absent, sec |-> Absent,
   absent |-> FALSE, raw |-> <<>>, duration |-> <<>>,
   client |-> FALSE, stored |-> FALSE, storedAll |-> FALSE]

BelowLimit(duration) ==
  IF duration = <<>> THEN FALSE
  ELSE LET match == Match(duration)
       IN IF ~match.found THEN FALSE ELSE TotalSeconds(match) < 180

\* lib/youtube.ts
isShortDuration(duration) ==
  IF duration = <<>> THEN FALSE
  ELSE LET match == Match(duration)
       IN IF ~match.found THEN FALSE ELSE TotalSeconds(match) <= 180

\* channels/[channelId]/fetch
isShortVideo(duration) ==
  LET match == Match(duration)
  IN IF ~match.found THEN FALSE ELSE TotalSeconds(match) <= 180

\* the copy in the route that refreshes all channels
isShortVideoAll(duration) ==
  LET match == Match(duration)
  IN IF ~match.found THEN FALSE ELSE TotalSeconds(match) <= 180

(***************************************************************************)
(* getChannelVideosPage step by step (lib/youtube.ts): up to three remote   *)
(* calls, channels (the uploads playlist of the channel, skipped when the   *)
(* caller passes a playlist id), playlistItems (one page of entries) and    *)
(* videos (the durations of the entries of the page, one request).  The     *)
(* remote API answers each call with 200, with 403 and the reason           *)
(* quotaExceeded, with 403 and another reason, or with another status.      *)
(***************************************************************************)
Answers == {"ok", "quota", "forbidden", "error"}

NoPage == [playlistId |-> NoPlaylist, videos |-> <<>>, nextPageToken |-> NoToken]

NoCall ==
  [pc |-> "idle", channelId |-> "A", maxResults |-> 0, pageToken |-> NoToken,
   uploadsPlaylistId |-> NoPlaylist, items |-> <<>>, nextPageToken |-> NoToken,
   page |-> NoPage, thrown |-> "none",
   \* history: the remote calls made and how each was answered
   asked |-> <<>>]

\* contentDetails.duration of a catalogue entry as the remote API reports it
DurationOf(video) ==
  IF video.isShort THEN <<"P", "T", "5", "9", "S">> ELSE <<"P", "T", "1", "0", "M">>

\* checkQuotaError: throws YouTubeQuotaError on 403 with reason quotaExceeded
checkQuotaError(answer) == answer = "quota"

Asked(c, api, answer) == Append(c.asked, [api |-> api, answer |-> answer])

\* lines 266-283: the entries with the durations that were looked up
BuildVideos(items, durations) ==
  [i \in 1..Len(items) |->
     Vid(items[i].id, items[i].channelId, items[i].publishedAt,
         isShortDuration(IF items[i].id \in DOMAIN durations
                           THEN durations[items[i].id] ELSE <<>>))]

\* lines 195-204
ClientStart(channelId, maxResults, pageToken, playlistId) ==
  /\ call.pc \in {"idle", "returned", "thrown"}
  /\ call' = [NoCall EXCEPT !.pc = IF playlistId = NoPlaylist THEN "channels"
                                   ELSE "playlistItems",
                            !.channelId = channelId, !.maxResults = maxResults,
                            !.pageToken = pageToken, !.uploadsPlaylistId = playlistId]
  /\ UNCHANGED <<feedVars, clf, refreshVars, lastFetched, home>>

\* lines 205-230
ChannelsAnswered(answer) ==
  /\ call.pc = "channels"
  /\ LET c == [call EXCEPT !.asked = Asked(call, "channels", answer)]
     IN call' =
          IF answer # "ok"
            THEN [c EXCEPT !.pc = "thrown",
                           !.thrown = IF answer = "quota" THEN "quota" ELSE "error"]
          ELSE IF Len(Scenarios[scenario].pages[c.channelId]) = 0
            THEN [c EXCEPT !.pc = "returned", !.page = NoPage]
          ELSE [c EXCEPT !.pc = "playlistItems",
                         !.uploadsPlaylistId = UploadsPlaylist[c.channelId]]
  /\ UNCHANGED <<feedVars, clf, refreshVars, lastFetched, home>>

\* lines 232-251
PlaylistItemsAnswered(answer) ==
  /\ call.pc = "playlistItems"
  /\ LET c == [call EXCEPT !.asked = Asked(call, "playlistItems", answer)]
         pages == Scenarios[scenario].pages[c.channelId]
         idx == IF c.pageToken = NoToken THEN 1 ELSE c.pageToken
         items == SubSeq(pages[idx].videos, 1, Min(c.maxResults, Len(pages[idx].videos)))
     IN call' =
          IF answer # "ok"
            THEN [c EXCEPT !.pc = "thrown",
                           !.thrown = IF checkQuotaError(answer) THEN "quota" ELSE "error"]
          ELSE IF Len(items) > 0
            THEN [c EXCEPT !.pc = "videos", !.items = items,
                           !.nextPageToken = pages[idx].nextPageToken]
          ELSE [c EXCEPT !.pc = "returned",
                         !.nextPageToken = pages[idx].nextPageToken,
                         !.page = [playlistId |-> c.uploadsPlaylistId, videos |-> <<>>,
                                   nextPageToken |-> pages[idx].nextPageToken]]
  /\ UNCHANGED <<feedVars, clf, refreshVars, lastFetched, home>>

\* lines 252-290: a videos call that is not answered 200 leaves durations empty
VideosAnswered(answer) ==
  /\ call.pc = "videos"
  /\ LET c == [call EXCEPT !.asked = Asked(call, "videos", answer)]
         durations == IF answer = "ok"
                        THEN [id \in {c.items[i].id : i \in 1..Len(c.items)} |->
                                DurationOf(CHOOSE v \in Range(c.items) : v.id = id)]
                        ELSE EmptyFn
     IN call' = [c EXCEPT !.pc = "returned",
                          !.page = [playlistId |-> c.uploadsPlaylistId,
                                    videos |-> BuildVideos(c.items, durations),
                                    nextPageToken |-> c.nextPageToken]]
  /\ UNCHANGED <<feedVars, clf, refreshVars, lastFetched, home>>

(***************************************************************************)
(* Refresh: the walk of one channel, newest first, and the stored rows.    *)
(***************************************************************************)
RowOf(userId, video) ==
  [userId |-> userId, videoId |-> video.id, channelId |-> video.channelId,
   publishedAt |-> video.publishedAt, isShort |-> video.isShort]

\* the unique index of the video table
Key(row) == <<row.userId, row.videoId>>

\* prisma.video.findMany({ where: { userId, channelId }, select: { videoId } })
ExistingVideoIds(table, userId, channelId) ==
  {row.videoId : row \in {x \in BagToSet(table) : x.userId = userId /\ x.channelId = channelId}}

RECURSIVE InsertIgnore(_, _)
InsertIgnore(table, rows) ==
  IF rows = <<>> THEN table
  ELSE IF \E x \in BagToSet(table) : Key(x) = Key(Head(rows))
         THEN InsertIgnore(table, Tail(rows))
         ELSE InsertIgnore(table (+) SetToBag({Head(rows)}), Tail(rows))

\* without skipDuplicates a row whose key is taken fails the whole statement
CreateManyStrict(table, rows) ==
  IF \/ \E i \in 1..Len(rows) : \E x \in BagToSet(table) : Key(x) = Key(rows[i])
     \/ \E i, j \in 1..Len(rows) : i # j /\ Key(rows[i]) = Key(rows[j])
    THEN [table |-> table, failed |-> TRUE]
    ELSE [table |-> InsertIgnore(table, rows), failed |-> FALSE]

\* prisma.video.createMany({ data, skipDuplicates: true })
createMany(table, rows) == [table |-> InsertIgnore(table, rows), failed |-> FALSE]

NoTask ==
  [pc |-> "none", existing |-> {}, pageToken |-> NoToken, newVideos |-> <<>>,
   reachedExisting |-> FALSE, totalFetched |-> 0, reason |-> "none",
   \* history: how many pages the walk was given, how many rows its createMany
   \* added to the table, and whether it has written lastFetched
   fetched |-> 0, added |-> 0, stamped |-> FALSE]

\* the task throws: nothing after the failing await runs
SwallowFailure(t, reason) == [t EXCEPT !.pc = "insert", !.reason = reason]

Rejected(t, reason) == [t EXCEPT !.pc = "rejected", !.reason = reason]

\* the for-of loop over one page
RECURSIVE StageLoop(_, _, _, _)
StageLoop(videos, existing, userId, acc) ==
  IF videos = <<>> THEN [newVideos |-> acc, reachedExisting |-> FALSE, seen |-> 0]
  ELSE IF Head(videos).id \in existing
         THEN [newVideos |-> acc, reachedExisting |-> TRUE, seen |-> 1]
         ELSE LET rest == StageLoop(Tail(videos), existing, userId,
                                    Append(acc, RowOf(userId, Head(videos))))
              IN [rest EXCEPT !.seen = @ + 1]

StageAllUnknown(videos, existing, userId, acc) ==
  [newVideos |-> acc \o [i \in 1..Len(SelectSeq(videos, LAMBDA v : v.id \notin existing)) |->
                           RowOf(userId, SelectSeq(videos, LAMBDA v : v.id \notin existing)[i])],
   reachedExisting |-> FALSE, seen |-> Len(videos)]

stageUntilKnown(videos, existing, userId, acc) == StageLoop(videos, existing, userId, acc)

\* refresh of all channels: the body of the while loop for a page that arrived
AfterPageAll(t, page, userId) ==
  IF Len(page.videos) = 0 THEN [t EXCEPT !.pc = "insert", !.fetched = @ + 1]
  ELSE LET l == stageUntilKnown(page.videos, t.existing, userId, t.newVideos)
       IN [t EXCEPT !.newVideos = l.newVideos,
                    !.reachedExisting = l.reachedExisting,
                    !.pageToken = page.nextPageToken,
                    !.fetched = @ + 1,
                    !.pc = IF l.reachedExisting \/ page.nextPageToken = NoToken
                             THEN "insert" ELSE "walk"]

\* fetch of one channel with refresh = true: the same, counting totalFetched
AfterPageOne(t, page, userId) ==
  IF Len(page.videos) = 0 THEN [t EXCEPT !.pc = "insert", !.fetched = @ + 1]
  ELSE LET l == stageUntilKnown(page.videos, t.existing, userId, t.newVideos)
       IN [t EXCEPT !.newVideos = l.newVideos,
                    !.reachedExisting = l.reachedExisting,
                    !.totalFetched = @ + l.seen,
                    !.pageToken = page.nextPageToken,
                    !.fetched = @ + 1,
                    !.pc = IF l.reachedExisting \/ page.nextPageToken = NoToken
                             THEN "insert" ELSE "walk"]

NoBulkResponse == [status |-> 0, totalNew |-> 0, channels |-> 0, quotaExceeded |-> FALSE]

NoBulk ==
  [pc |-> "idle", user |-> "u1", channelIds |-> <<>>, task |-> EmptyFn,
   resp |-> NoBulkResponse]

NoOneResponse == [status |-> 0, newVideosAdded |-> 0, totalFetched |-> 0, quotaExceeded |-> FALSE]

NoOne ==
  [pc |-> "idle", user |-> "u1", channelId |-> "A", now |-> 0, task |-> NoTask,
   resp |-> NoOneResponse]

Settled(t) == t.pc \in {"fulfilled", "rejected"}

\* the loop over the results of Promise.allSettled
RECURSIVE TallyLoop(_, _, _)
TallyLoop(results, totalNew, quotaExceeded) ==
  IF results = <<>> THEN [totalNew |-> totalNew, quotaExceeded |-> quotaExceeded]
  ELSE LET result == Head(results)
       IN IF result.pc = "fulfilled"
            THEN TallyLoop(Tail(results), totalNew + Len(result.newVideos), quotaExceeded)
            ELSE IF result.reason = "quota"
                   THEN TallyLoop(Tail(results), totalNew, TRUE)
                   ELSE TallyLoop(Tail(results), totalNew, quotaExceeded)

TallyAnyFailure(results) ==
  [totalNew |-> TallyLoop(results, 0, FALSE).totalNew,
   quotaExceeded |-> \E i \in 1..Len(results) : results[i].pc = "rejected"]

Tally(results) == TallyLoop(results, 0, FALSE)

(***************************************************************************)
(* Pure helpers of GET                                                     *)
(***************************************************************************)
Ids(videos) == {videos[i].id : i \in 1..Len(videos)}

RECURSIVE MergeLoop(_, _, _)
MergeLoop(all, seen, merged) ==
  IF all = <<>> THEN merged
  ELSE LET video == Head(all)
       IN IF video.id \notin seen
            THEN MergeLoop(Tail(all), seen \cup {video.id}, Append(merged, video))
            ELSE MergeLoop(Tail(all), seen, merged)

MergeKeepAll(base, next) == base \o next

mergeUniqueById(base, next) == MergeLoop(base \o next, {}, <<>>)

\* Array.prototype.sort is stable: an element goes behind every element the
\* comparator does not order after it.
Compare(a, b) == b.publishedAt - a.publishedAt

RECURSIVE InsertSorted(_, _)
InsertSorted(sorted, video) ==
  IF sorted = <<>> THEN <<video>>
  ELSE IF Compare(Head(sorted), video) <= 0
         THEN <<Head(sorted)>> \o InsertSorted(Tail(sorted), video)
         ELSE <<video>> \o sorted

RECURSIVE SortLoop(_, _)
SortLoop(videos, acc) ==
  IF videos = <<>> THEN acc
  ELSE SortLoop(Tail(videos), InsertSorted(acc, Head(videos)))

KeepOrder(videos) == videos

sortByPublishedDesc(videos) == SortLoop(videos, <<>>)

filterByType(videos, type) ==
  IF type = "videos" THEN SelectSeq(videos, LAMBDA v : ~v.isShort)
  ELSE IF type = "shorts" THEN SelectSeq(videos, LAMBDA v : v.isShort)
  ELSE videos

hasMoreChannels(channelStates) ==
  \E c \in DOMAIN channelStates : ~channelStates[c].exhausted

\* Array.prototype.slice(start, end): a negative index counts from the end
RelativeIndex(i, len) == IF i < 0 THEN (IF len + i < 0 THEN 0 ELSE len + i) ELSE Min(i, len)

Slice(s, start, end) ==
  LET k == RelativeIndex(start, Len(s))
      final == RelativeIndex(end, Len(s))
  IN IF k >= final THEN <<>> ELSE SubSeq(s, k + 1, final)

InitialState == [playlistId |-> NoPlaylist, nextPageToken |-> NoToken, exhausted |-> FALSE]

StateOf(channelStates, channelId) ==
  IF channelId \in DOMAIN channelStates THEN channelStates[channelId] ELSE InitialState

(***************************************************************************)
(* fetchNextPages: one fan-out round.  outcome[c] is what the call for     *)
(* source c does; an exhausted source is not called.                       *)
(***************************************************************************)
Queried(channelIds, channelStates) ==
  {c \in Range(channelIds) : ~StateOf(channelStates, c).exhausted}

FailedMarksExhausted(scn, channelId, state, outcome) ==
  IF state.exhausted THEN [channelId |-> channelId, state |-> state, videos |-> <<>>]
  ELSE IF outcome = "ok"
    THEN LET page == getChannelVideosPage(scn, channelId, PAGE_SIZE_PER_CHANNEL,
                                            state.nextPageToken, state.playlistId)
         IN [channelId |-> channelId,
             state |-> [playlistId |-> page.playlistId,
                        nextPageToken |-> page.nextPageToken,
                        exhausted |-> page.nextPageToken = NoToken],
             videos |-> page.videos]
    ELSE [channelId |-> channelId,
          state |-> [state EXCEPT !.exhausted = TRUE],
          videos |-> <<>>]

FetchFirstPage(scn, channelId, state, outcome) ==
  IF state.exhausted THEN [channelId |-> channelId, state |-> state, videos |-> <<>>]
  ELSE IF outcome = "ok"
    THEN LET page == getChannelVideosPage(scn, channelId, PAGE_SIZE_PER_CHANNEL,
                                            NoToken, state.playlistId)
         IN [channelId |-> channelId,
             state |-> [playlistId |-> page.playlistId,
                        nextPageToken |-> page.nextPageToken,
                        exhausted |-> page.nextPageToken = NoToken],
             videos |-> page.videos]
    ELSE [channelId |-> channelId, state |-> state, videos |-> <<>>]

FetchOne(scn, channelId, state, outcome) ==
  IF state.exhausted THEN [channelId |-> channelId, state |-> state, videos |-> <<>>]
  ELSE IF outcome = "ok"
    THEN LET page == getChannelVideosPage(scn, channelId, PAGE_SIZE_PER_CHANNEL,
                                            state.nextPageToken, state.playlistId)
         IN [channelId |-> channelId,
             state |-> [playlistId |-> page.playlistId,
                        nextPageToken |-> page.nextPageToken,
                        exhausted |-> page.nextPageToken = NoToken],
             videos |-> page.videos]
    ELSE [channelId |-> channelId, state |-> state, videos |-> <<>>]

RECURSIVE Flatten(_)
Flatten(results) ==
  IF results = <<>> THEN <<>> ELSE Head(results).videos \o Flatten(Tail(results))

fetchNextPages(scn, channelIds, channelStates, outcome) ==
  LET results == [i \in 1..Len(channelIds) |->
                    FetchOne(scn, channelIds[i], StateOf(channelStates, channelIds[i]),
                             IF channelIds[i] \in DOMAIN outcome
                               THEN outcome[channelIds[i]] ELSE "ok")]
      byChannel(c) == CHOOSE i \in 1..Len(channelIds) : channelIds[i] = c
  IN [nextStates |->
        [c \in DOMAIN channelStates \cup Range(channelIds) |->
           IF c \in Range(channelIds) THEN results[byChannel(c)].state
           ELSE channelStates[c]],
      newVideos |-> Flatten(results)]

(***************************************************************************)
(* Per-User Fetch-State Cache (src/lib/cache.ts)                           *)
(***************************************************************************)
NoEntry == [present |-> FALSE, videos |-> <<>>, timestamp |-> 0, channelStates |-> EmptyFn]

GetIgnoringAge(c, t, userId) ==
  IF c[userId].present THEN c[userId] ELSE NoEntry

getCachedVideos(c, t, userId) ==
  IF c[userId].present /\ t - c[userId].timestamp < CACHE_DURATION
    THEN c[userId] ELSE NoEntry

setCachedVideos(c, t, userId, videos, channelStates) ==
  [c EXCEPT ![userId] = [present |-> TRUE, videos |-> videos,
                         timestamp |-> t, channelStates |-> channelStates]]

ClearAll(c, userId) == [u \in DOMAIN c |-> NoEntry]

invalidateCache(c, userId) == [c EXCEPT ![userId] = NoEntry]

(***************************************************************************)
(* GET /api/videos                                                         *)
(***************************************************************************)
NoPut ==
  [live |-> FALSE, videos |-> <<>>, channelStates |-> EmptyFn, at |-> 0, epoch |-> 0]

PutOf(q, t, videos, channelStates) ==
  [live |-> TRUE, videos |-> videos, channelStates |-> channelStates, at |-> t,
   epoch |-> q.loadEpoch]

NoGot ==
  [hit |-> FALSE, videos |-> <<>>, channelStates |-> EmptyFn, putAt |-> 0, readAt |-> 0,
   epoch |-> 0]

NoChange == [pc |-> "idle", user |-> "u1", changed |-> FALSE, served |-> 0]

\* changes of u's channel rows whose request has returned
Completed(u) ==
  IF chg.pc = "written" /\ chg.user = u /\ chg.changed THEN epoch[u] - 1 ELSE epoch[u]

NoRound ==
  [kind |-> "none", queried |-> {}, markedBefore |-> {}, outcome |-> EmptyFn,
   preStates |-> EmptyFn, preVideos |-> <<>>, newVideos |-> <<>>]

NoResponse == [videos |-> <<>>, hasMore |-> FALSE, total |-> 0, page |-> Absent]

IdleReq ==
  [pc |-> "idle", user |-> "u1", page |-> 1, type |-> "all", channelIds |-> <<>>,
   allVideos |-> <<>>, channelStates |-> EmptyFn, rounds |-> 0, resp |-> NoResponse,
   \* history of the request, read by the properties only
   fanouts |-> 0, fresh |-> FALSE, sawFailure |-> FALSE, sawQuota |-> FALSE,
   round |-> NoRound,
   \* the channel rows the request loaded, the changes they reflect, the changes
   \* that had returned when it began, and what its cache lookup gave
   sources |-> <<>>, loadEpoch |-> 0, doneEpoch |-> 0, got |-> NoGot,
   \* page is NaN (parseInt found no number)
   nan |-> FALSE]

NoPrev ==
  [valid |-> FALSE, user |-> "u1", page |-> 1, type |-> "all", resp |-> NoResponse,
   fresh |-> FALSE, sawFailure |-> FALSE, sawQuota |-> FALSE]

Summary(q) ==
  [valid |-> TRUE, user |-> q.user, page |-> q.page, type |-> q.type, resp |-> q.resp,
   fresh |-> q.fresh, sawFailure |-> q.sawFailure, sawQuota |-> q.sawQuota]

PerPage == Scenarios[scenario].perPage

NeverBreak(newVideos) == FALSE

BreakOnEmpty(newVideos) == Len(newVideos) = 0

LoopCondition(filteredLen, targetEndIndex, channelStates, rounds) ==
  /\ filteredLen <= targetEndIndex
  /\ hasMoreChannels(channelStates)
  /\ rounds < MAX_ROUNDS_PER_REQUEST

HasMoreBufferOnly(endIndex, filteredLen, channelStates) == endIndex < filteredLen

HasMore(endIndex, filteredLen, channelStates) ==
  endIndex < filteredLen \/ hasMoreChannels(channelStates)

\* with page NaN the indices are NaN: slice(NaN, NaN) is empty, NaN < length is
\* false, and the page is serialised as null
Paginate(q, perPage) ==
  LET filteredVideos == filterByType(q.allVideos, q.type)
      startIndex == (q.page - 1) * perPage
      endIndex == startIndex + perPage
  IN IF q.nan
       THEN [videos |-> <<>>,
             hasMore |-> hasMoreChannels(q.channelStates),
             total |-> Len(filteredVideos),
             page |-> Absent]
       ELSE [videos |-> Slice(filteredVideos, startIndex, endIndex),
             hasMore |-> HasMore(endIndex, Len(filteredVideos), q.channelStates),
             total |-> Len(filteredVideos),
             page |-> q.page]

\* the while condition, then either the next await or the response
Continue(q, perPage) ==
  IF ~q.nan /\ LoopCondition(Len(filterByType(q.allVideos, q.type)), q.page * perPage,
                             q.channelStates, q.rounds)
    THEN [q EXCEPT !.pc = "loop"]
    ELSE [q EXCEPT !.pc = "done", !.resp = Paginate(q, perPage)]

\* parseInt(text, 10): an optional sign and the digits that follow it
parseInt(text) ==
  LET signed == Len(text) >= 1 /\ text[1] \in {"-", "+"}
      first == IF signed THEN 2 ELSE 1
      n == DigitRun(text, first)
      digits == ParseDigits(SubSeq(text, first, first + n - 1), 0)
  IN IF n = 0 THEN [nan |-> TRUE, value |-> 0]
     ELSE [nan |-> FALSE, value |-> IF signed /\ text[1] = "-" THEN 0 - digits ELSE digits]

\* line 21: parseInt(searchParams.get("page") || "1", 10)
PageParam(raw) == parseInt(IF raw = <<>> THEN <<"1">> ELSE raw)

\* line 22: searchParams.get("type") || "all"
TypeParam(raw) == IF raw = "" THEN "all" ELSE raw

\* lines 12-33: session, parameters, the user's channel rows
AcceptParsed(r, u, parsed, t) ==
  /\ req[r].pc \in {"idle", "done"}
  /\ LET channelIds == [i \in 1..Len(channels[u]) |-> channels[u][i].channelId]
         p == parsed.value
         q == [IdleReq EXCEPT !.user = u, !.page = p, !.type = t, !.nan = parsed.nan,
                              !.channelIds = channelIds, !.sources = channels[u],
                              !.loadEpoch = epoch[u], !.doneEpoch = Completed(u)]
     IN req' = [req EXCEPT ![r] =
                  IF Len(channelIds) = 0
                    THEN [q EXCEPT !.pc = "done"]
                    ELSE [q EXCEPT !.pc = "loaded"]]
  /\ UNCHANGED <<scenario, channels, cache, now, marked, lastPut, epoch, chg, clf,
               store, bulk, one, lastFetched, call>>

\* the same for a page parameter that is a positive number
Accept(r, u, p, t) == AcceptParsed(r, u, [nan |-> FALSE, value |-> p], t)

Begin(r, u, p, t) == Accept(r, u, p, t) /\ prev' = prev /\ home' = home

\* the request as it arrives: the query parameters as strings
BeginRaw(r, u, rawPage, rawType) ==
  AcceptParsed(r, u, PageParam(rawPage), TypeParam(rawType)) /\ prev' = prev /\ home' = home

\* the same, remembering the response the slot's previous request returned
BeginAfter(r, u, p, t) ==
  /\ Accept(r, u, p, t)
  /\ prev' = IF req[r].pc = "done" THEN Summary(req[r]) ELSE prev
  /\ home' = home

(***************************************************************************)
(* The page of the client (app/page.tsx): it asks for page 1 of a tab,     *)
(* shows what it gets, and on scrolling asks for the next page and appends  *)
(* it, as long as the last answer had hasMore.                              *)
(***************************************************************************)
NoHome ==
  [pc |-> "idle", type |-> "videos", page |-> 1, videos |-> <<>>, hasMore |-> TRUE,
   append |-> FALSE]

\* useEffect: fetchVideos(1, type)
HomeLoad(type) ==
  /\ home.pc = "idle"
  /\ Accept(1, "u1", 1, type) /\ prev' = prev
  /\ home' = [NoHome EXCEPT !.pc = "waiting", !.type = type]

\* fetchVideos after its awaits: set or append the items, hasMore
HomeReceive ==
  /\ home.pc = "waiting" /\ req[1].pc = "done"
  /\ home' = [home EXCEPT !.pc = "shown",
                          !.videos = IF home.append THEN @ \o req[1].resp.videos
                                     ELSE req[1].resp.videos,
                          !.hasMore = req[1].resp.hasMore]
  /\ UNCHANGED <<feedVars, clf, refreshVars, lastFetched, call>>

\* loadMore: the next page of the tab, appended
HomeLoadMore ==
  /\ home.pc = "shown" /\ home.hasMore /\ home.page < MaxPage
  /\ Accept(1, "u1", home.page + 1, home.type) /\ prev' = prev
  /\ home' = [home EXCEPT !.pc = "waiting", !.page = @ + 1, !.append = TRUE]

\* lines 97-112 and, on a cache hit with videos, 129-166
ReadCache(r) ==
  /\ req[r].pc = "loaded"
  /\ LET q == req[r]
         cached == getCachedVideos(cache, now, q.user)
         q1 == [q EXCEPT !.allVideos = cached.videos,
                         !.channelStates =
                            IF cached.present THEN cached.channelStates
                            ELSE [c \in Range(q.channelIds) |-> InitialState],
                         !.fresh = ~cached.present,
                         !.got = IF cached.present
                                   THEN [hit |-> TRUE, videos |-> cached.videos,
                                         channelStates |-> cached.channelStates,
                                         putAt |-> cached.timestamp, readAt |-> now,
                                         epoch |-> lastPut[q.user].epoch]
                                   ELSE [NoGot EXCEPT !.readAt = now]]
     IN req' = [req EXCEPT ![r] =
                  IF Len(q1.allVideos) = 0 THEN [q1 EXCEPT !.pc = "initial"]
                  ELSE Continue(q1, PerPage)]
  /\ UNCHANGED <<scenario, channels, cache, now, prev, marked, lastPut, epoch, chg, clf,
               store, bulk, one, lastFetched, call, home>>

\* what a fan-out of request q with these outcomes leaves in the request's history
RoundOf(q, outcome, res) ==
  [kind |-> q.pc, queried |-> DOMAIN outcome, markedBefore |-> marked[q.user],
   outcome |-> outcome, preStates |-> q.channelStates, preVideos |-> q.allVideos,
   newVideos |-> res.newVideos]

AfterFanOut(q, outcome, res) ==
  [q EXCEPT !.channelStates = res.nextStates,
            !.fanouts = IF DOMAIN outcome = {} THEN @ ELSE @ + 1,
            !.sawFailure = @ \/ \E c \in DOMAIN outcome : outcome[c] # "ok",
            !.sawQuota = @ \/ \E c \in DOMAIN outcome : outcome[c] = "quota",
            !.round = RoundOf(q, outcome, res)]

Mark(q, outcome, res) ==
  [marked EXCEPT ![q.user] =
     (@ \ {c \in DOMAIN outcome : outcome[c] = "ok"})
       \cup {c \in DOMAIN outcome : outcome[c] = "ok" /\ res.nextStates[c].exhausted}]

\* lines 113-120, then 129-166 up to the next await
InitialFetchWith(r, outcome) ==
  /\ req[r].pc = "initial"
  /\   LET q == req[r]
           initial == fetchNextPages(scenario, q.channelIds, q.channelStates, outcome)
           allVideos == sortByPublishedDesc(mergeUniqueById(q.allVideos, initial.newVideos))
           q1 == [AfterFanOut(q, outcome, initial) EXCEPT !.allVideos = allVideos]
       IN /\ cache' = setCachedVideos(cache, now, q.user, allVideos, initial.nextStates)
          /\ lastPut' = [lastPut EXCEPT ![q.user] =
                           PutOf(q, now, allVideos, initial.nextStates)]
          /\ req' = [req EXCEPT ![r] = Continue(q1, PerPage)]
          /\ marked' = Mark(q, outcome, initial)
  /\ UNCHANGED <<scenario, channels, now, prev, epoch, chg, clf,
               store, bulk, one, lastFetched, call, home>>

InitialFetch(r) ==
  \E outcome \in [Queried(req[r].channelIds, req[r].channelStates) -> Outcomes] :
    InitialFetchWith(r, outcome)

\* lines 141-152 (one pass of the while body), then 136-166 up to the next await
FillRoundWith(r, outcome) ==
  /\ req[r].pc = "loop"
  /\   LET q == req[r]
           next == fetchNextPages(scenario, q.channelIds, q.channelStates, outcome)
           q1 == AfterFanOut(q, outcome, next)
           allVideos == sortByPublishedDesc(mergeUniqueById(q.allVideos, next.newVideos))
           q2 == [q1 EXCEPT !.allVideos = allVideos, !.rounds = @ + 1]
       IN /\ IF BreakOnEmpty(next.newVideos)
               THEN /\ req' = [req EXCEPT ![r] =
                                 [q1 EXCEPT !.pc = "done", !.resp = Paginate(q1, PerPage)]]
                    /\ cache' = cache
                    /\ lastPut' = lastPut
               ELSE /\ req' = [req EXCEPT ![r] = Continue(q2, PerPage)]
                    /\ cache' = setCachedVideos(cache, now, q.user, allVideos, next.nextStates)
                    /\ lastPut' = [lastPut EXCEPT ![q.user] =
                                     PutOf(q, now, allVideos, next.nextStates)]
          /\ marked' = Mark(q, outcome, next)
  /\ UNCHANGED <<scenario, channels, now, prev, epoch, chg, clf,
               store, bulk, one, lastFetched, call, home>>

FillRound(r) ==
  \E outcome \in [Queried(req[r].channelIds, req[r].channelStates) -> Outcomes] :
    FillRoundWith(r, outcome)

(***************************************************************************)
(* Specification: requests served one after another                        *)
(***************************************************************************)
Init ==
  /\ scenario \in ScenarioIds
  /\ channels = [u \in Users |->
                   IF u = "u1"
                     THEN <<[channelId |-> "A", isEnabled |-> TRUE],
                            [channelId |-> "B", isEnabled |-> TRUE]>>
                     ELSE <<>>]
  /\ cache = [u \in Users |-> NoEntry]
  /\ now = 0
  /\ req = [r \in Slots |-> IdleReq]
  /\ prev = NoPrev
  /\ marked = [u \in Users |-> {}]
  /\ lastPut = [u \in Users |-> NoPut]
  /\ epoch = [u \in Users |-> 0]
  /\ chg = NoChange
  /\ clf = NoClassification
  /\ store = EmptyBag
  /\ bulk = NoBulk
  /\ one = NoOne
  /\ lastFetched = [u \in Users |-> [c \in ChannelNames |-> Absent]]
  /\ call = NoCall
  /\ home = NoHome

Request == \E u \in Users, p \in Pages, t \in Types : Begin(1, u, p, t)

Resume == \E r \in Slots : ReadCache(r)

Initial == \E r \in Slots : InitialFetch(r)

Fill == \E r \in Slots : FillRound(r)

Next == Request \/ Resume \/ Initial \/ Fill

Spec == Init /\ [][Next]_vars

(***************************************************************************)
(* The same program with the history variable prev kept: what the previous *)
(* request answered, for the properties that relate two successive calls.  *)
(* It is run on the paging scenario of the specification and on the deep   *)
(* catalogue, whose listing is longer than one request may walk.           *)
(***************************************************************************)
HistoryScenarios == {"paging", "deep"}

InitHistory == Init /\ scenario \in HistoryScenarios

RequestAfter == \E u \in Users, p \in Pages, t \in Types : BeginAfter(1, u, p, t)

NextHistory == RequestAfter \/ Resume \/ Initial \/ Fill

SpecHistory == InitHistory /\ [][NextHistory]_vars

(***************************************************************************)
(* POST / DELETE / PATCH /api/channels: the database write, and after its  *)
(* await the invalidation of the caller's cache entry.  Another handler    *)
(* can run between the two.                                                *)
(***************************************************************************)
ChannelIdsOf(rows) == {rows[i].channelId : i \in 1..Len(rows)}

\* prisma.channel.create: the row of a channel just added (enabled)
NewChannel(channelId) == [channelId |-> channelId, isEnabled |-> TRUE]

\* how many POST / DELETE / PATCH calls have written so far
TotalChanges == chg.served

\* the write has resolved; the handler is suspended before invalidateCache
Commit(u, rows) ==
  /\ chg.pc = "idle"
  /\ TotalChanges < MaxChanges
  /\ channels' = [channels EXCEPT ![u] = rows]
  /\ epoch' = [epoch EXCEPT ![u] = IF rows # channels[u] THEN @ + 1 ELSE @]
  /\ chg' = [pc |-> "written", user |-> u, changed |-> rows # channels[u],
            served |-> chg.served + 1]
  /\ UNCHANGED <<scenario, cache, now, req, prev, marked, lastPut, clf,
               store, bulk, one, lastFetched, call, home>>

\* POST, lines 35-83; a channel the user has already is answered 400
PostChannel(u, channelId) ==
  /\ channelId \notin ChannelIdsOf(channels[u])
  /\ Commit(u, Append(channels[u], NewChannel(channelId)))

\* DELETE, lines 91-113
DeleteChannel(u, channelId) ==
  Commit(u, SelectSeq(channels[u], LAMBDA row : row.channelId # channelId))

\* PATCH, lines 121-149; result.count = 0 is answered 404
PatchChannel(u, channelId, isEnabled) ==
  /\ channelId \in ChannelIdsOf(channels[u])
  /\ Commit(u, [i \in 1..Len(channels[u]) |->
                  IF channels[u][i].channelId = channelId
                    THEN [channels[u][i] EXCEPT !.isEnabled = isEnabled]
                    ELSE channels[u][i]])

\* lines 86-88, 116-118, 151-153: invalidateCache and the response
CompleteChange ==
  /\ chg.pc = "written"
  /\ cache' = invalidateCache(cache, chg.user)
  /\ lastPut' = [lastPut EXCEPT ![chg.user] = NoPut]
  /\ chg' = [NoChange EXCEPT !.served = chg.served]
  /\ UNCHANGED <<scenario, channels, now, req, prev, marked, epoch, clf,
               store, bulk, one, lastFetched, call, home>>

\* Date.now() moves on between two handlers
Tick ==
  /\ now < MaxTicks * TickStep
  /\ now' = now + TickStep
  /\ UNCHANGED <<scenario, channels, cache, req, prev, marked, lastPut, epoch, chg, clf,
               store, bulk, one, lastFetched, call, home>>

(***************************************************************************)
(* Specification: two users, requests in flight side by side, the clock,   *)
(* and changes of the channel rows, on the paging catalogue.               *)
(***************************************************************************)
InitShared ==
  /\ scenario = "paging"
  /\ channels = [u \in Users |->
                   IF u = "u1"
                     THEN <<[channelId |-> "A", isEnabled |-> TRUE],
                            [channelId |-> "B", isEnabled |-> TRUE]>>
                     ELSE <<[channelId |-> "B", isEnabled |-> TRUE]>>]
  /\ cache = [u \in Users |-> NoEntry]
  /\ now = 0
  /\ req = [r \in Slots |-> IdleReq]
  /\ prev = NoPrev
  /\ marked = [u \in Users |-> {}]
  /\ lastPut = [u \in Users |-> NoPut]
  /\ epoch = [u \in Users |-> 0]
  /\ chg = NoChange
  /\ clf = NoClassification
  /\ store = EmptyBag
  /\ bulk = NoBulk
  /\ one = NoOne
  /\ lastFetched = [u \in Users |-> [c \in ChannelNames |-> Absent]]
  /\ call = NoCall
  /\ home = NoHome

RequestFirst == \E u \in Users : Begin(1, u, 1, "all")

Post == \E u \in Users, c \in ChannelNames : PostChannel(u, c)

Delete == \E u \in Users, c \in ChannelNames : DeleteChannel(u, c)

Patch == \E u \in Users, c \in ChannelNames, e \in BOOLEAN : PatchChannel(u, c, e)

\* every upstream call of the round succeeds
AllOk(r) == [c \in Queried(req[r].channelIds, req[r].channelStates) |-> "ok"]

InitialOk == \E r \in Slots : InitialFetchWith(r, AllOk(r))

FillOk == \E r \in Slots : FillRoundWith(r, AllOk(r))

NextShared ==
  RequestFirst \/ Resume \/ InitialOk \/ FillOk \/ Post \/ Delete \/ Patch \/ CompleteChange \/ Tick

SpecShared == InitShared /\ [][NextShared]_vars

(***************************************************************************)
(* Specification: the classifier applied to one duration.  The duration is *)
(* either written out from hour/minute/second components (at least one),   *)
(* or any short string over a few characters, or absent in the reply of    *)
(* the remote API.                                                         *)
(***************************************************************************)
Hours == {Absent, 0, 1}

Minutes == {Absent} \cup 0..MaxMinutes

Seconds == {Absent, 0, 1, 59, 60, 61, 120, 179, 180, 181}

Chars == {"P", "T", "M", "S", "1", "x"}

Strings == UNION {[1..n -> Chars] : n \in 0..MaxLen}

Part(n, unit) == IF n = Absent THEN <<>> ELSE Append(ToDigits(n), unit)

Render(h, m, sec) == <<"P", "T">> \o Part(h, "H") \o Part(m, "M") \o Part(sec, "S")

Components ==
  {c \in [h : Hours, m : Minutes, sec : Seconds] :
     c.h # Absent \/ c.m # Absent \/ c.sec # Absent}

Given ==
  {[NoClassification EXCEPT !.pc = "given", !.kind = "hms", !.h = c.h, !.m = c.m,
                            !.sec = c.sec, !.raw = Render(c.h, c.m, c.sec)] :
     c \in Components}
  \cup {[NoClassification EXCEPT !.pc = "given", !.kind = "text", !.raw = t] : t \in Strings}
  \cup {[NoClassification EXCEPT !.pc = "given", !.kind = "text", !.absent = TRUE]}

InitClassify ==
  /\ scenario = "paging"
  /\ channels = [u \in Users |-> <<>>]
  /\ cache = [u \in Users |-> NoEntry]
  /\ now = 0
  /\ req = [r \in Slots |-> IdleReq]
  /\ prev = NoPrev
  /\ marked = [u \in Users |-> {}]
  /\ lastPut = [u \in Users |-> NoPut]
  /\ epoch = [u \in Users |-> 0]
  /\ chg = NoChange
  /\ clf \in Given
  /\ store = EmptyBag
  /\ bulk = NoBulk
  /\ one = NoOne
  /\ lastFetched = [u \in Users |-> [c \in ChannelNames |-> Absent]]
  /\ call = NoCall
  /\ home = NoHome

\* lib/youtube.ts: durations[videoId] || "", isShortDuration(duration); the
\* refresh routes: video.duration ? isShortVideo(video.duration) : false
Classify ==
  /\ clf.pc = "given"
  /\ LET duration == IF clf.absent THEN <<>> ELSE clf.raw
     IN clf' = [clf EXCEPT !.pc = "classified",
                           !.duration = duration,
                           !.client = isShortDuration(duration),
                           !.stored = IF duration # <<>> THEN isShortVideo(duration) ELSE FALSE,
                           !.storedAll = IF duration # <<>> THEN isShortVideoAll(duration)
                                         ELSE FALSE]
  /\ UNCHANGED <<feedVars, refreshVars, lastFetched, call, home>>

NextClassify == Classify

SpecClassify == InitClassify /\ [][NextClassify]_vars

(***************************************************************************)
(* POST refresh of all enabled channels (Promise.allSettled over one task  *)
(* per channel) and POST /api/channels/[channelId]/fetch with refresh =    *)
(* true.  A task is suspended at each await: the reads of the stored rows, *)
(* every getChannelVideosPage, createMany, and the update of lastFetched.  *)
(* The playlist id written back to the channel row is not part of the      *)
(* state; lastFetched is (Absent stands for null).                         *)
(***************************************************************************)
\* lines 21-45: the enabled rows; none: { totalNew: 0, channels: 0 }
BulkStart(u) ==
  /\ bulk.pc = "idle"
  /\ LET enabled == SelectSeq(channels[u], LAMBDA row : row.isEnabled)
         channelIds == [i \in 1..Len(enabled) |-> enabled[i].channelId]
     IN bulk' = IF Len(enabled) = 0
                  THEN [NoBulk EXCEPT !.pc = "done", !.user = u,
                                      !.resp = [NoBulkResponse EXCEPT !.status = 200]]
                  ELSE [NoBulk EXCEPT !.pc = "running", !.user = u,
                                      !.channelIds = channelIds,
                                      !.task = [c \in Range(channelIds) |->
                                                  [NoTask EXCEPT !.pc = "start"]]]
  /\ UNCHANGED <<feedVars, clf, store, one, lastFetched, call, home>>

\* lines 46-63: findFirst, then findMany of the stored ids of the channel
BulkExisting(c) ==
  /\ bulk.pc = "running" /\ c \in DOMAIN bulk.task /\ bulk.task[c].pc = "start"
  /\ bulk' = [bulk EXCEPT !.task[c] =
                [@ EXCEPT !.pc = "walk",
                          !.existing = ExistingVideoIds(store, bulk.user, c)]]
  /\ UNCHANGED <<feedVars, clf, store, one, lastFetched, call, home>>

\* lines 66-109: one getChannelVideosPage has settled
BulkPage(c, outcome) ==
  /\ bulk.pc = "running" /\ c \in DOMAIN bulk.task /\ bulk.task[c].pc = "walk"
  /\ LET t == bulk.task[c]
         page == getChannelVideosPage(scenario, c, 50, t.pageToken, NoPlaylist)
     IN bulk' = [bulk EXCEPT !.task[c] =
                   IF outcome = "ok" THEN AfterPageAll(t, page, bulk.user)
                   ELSE Rejected(t, outcome)]
  /\ UNCHANGED <<feedVars, clf, store, one, lastFetched, call, home>>

\* lines 111-117
BulkInsert(c) ==
  /\ bulk.pc = "running" /\ c \in DOMAIN bulk.task /\ bulk.task[c].pc = "insert"
  /\ LET t == bulk.task[c]
         res == IF Len(t.newVideos) > 0 THEN createMany(store, t.newVideos)
                ELSE [table |-> store, failed |-> FALSE]
     IN /\ store' = res.table
        /\ bulk' = [bulk EXCEPT !.task[c] =
                      IF res.failed THEN Rejected(t, "duplicate")
                      ELSE [t EXCEPT !.pc = "stamp",
                                     !.added = BagCardinality(res.table)
                                                 - BagCardinality(store)]]
  /\ UNCHANGED <<feedVars, clf, one, lastFetched, call, home>>

\* lines 119-125: lastFetched, return newVideos.length
BulkStamp(c) ==
  /\ bulk.pc = "running" /\ c \in DOMAIN bulk.task /\ bulk.task[c].pc = "stamp"
  /\ bulk' = [bulk EXCEPT !.task[c] = [@ EXCEPT !.pc = "fulfilled", !.stamped = TRUE]]
  /\ lastFetched' = [lastFetched EXCEPT ![bulk.user][c] = now]
  /\ UNCHANGED <<feedVars, clf, store, one, call, home>>

\* lines 129-144
BulkTally ==
  /\ bulk.pc = "running" /\ \A c \in DOMAIN bulk.task : Settled(bulk.task[c])
  /\ LET results == [i \in 1..Len(bulk.channelIds) |-> bulk.task[bulk.channelIds[i]]]
         tally == Tally(results)
     IN bulk' = [bulk EXCEPT !.pc = "done",
                             !.resp = [status |-> 200, totalNew |-> tally.totalNew,
                                       channels |-> Len(bulk.channelIds),
                                       quotaExceeded |-> tally.quotaExceeded]]
  /\ UNCHANGED <<feedVars, clf, store, one, lastFetched, call, home>>

\* fetch, lines 12-47: the channel row (404 without one), refresh = true
OneStart(u, channelId) ==
  /\ one.pc = "idle"
  /\ one' = IF channelId \in ChannelIdsOf(channels[u])
              THEN [NoOne EXCEPT !.pc = "running", !.user = u, !.channelId = channelId,
                                 !.now = now,
                                 !.task = [NoTask EXCEPT !.pc = "start"]]
              ELSE [NoOne EXCEPT !.pc = "done", !.user = u, !.channelId = channelId,
                                 !.resp = [NoOneResponse EXCEPT !.status = 404]]
  /\ UNCHANGED <<feedVars, clf, store, bulk, lastFetched, call, home>>

\* fetch, lines 55-75
OneExisting ==
  /\ one.pc = "running" /\ one.task.pc = "start"
  /\ one' = [one EXCEPT !.task =
               [@ EXCEPT !.pc = "walk",
                         !.existing = ExistingVideoIds(store, one.user, one.channelId)]]
  /\ UNCHANGED <<feedVars, clf, store, bulk, lastFetched, call, home>>

\* fetch, lines 78-149 and, when the call throws, 175-189
OnePage(outcome) ==
  /\ one.pc = "running" /\ one.task.pc = "walk"
  /\ LET t == one.task
         page == getChannelVideosPage(scenario, one.channelId, 50, t.pageToken, NoPlaylist)
     IN one' = IF outcome = "ok"
                 THEN [one EXCEPT !.task = AfterPageOne(t, page, one.user)]
                 ELSE [one EXCEPT !.pc = "done",
                                  !.task = Rejected(t, outcome),
                                  !.resp = [NoOneResponse EXCEPT
                                              !.status = IF outcome = "quota" THEN 429 ELSE 500,
                                              !.quotaExceeded = outcome = "quota"]]
  /\ UNCHANGED <<feedVars, clf, store, bulk, lastFetched, call, home>>

\* fetch, lines 151-158
OneInsert ==
  /\ one.pc = "running" /\ one.task.pc = "insert"
  /\ LET t == one.task
         res == IF Len(t.newVideos) > 0 THEN createMany(store, t.newVideos)
                ELSE [table |-> store, failed |-> FALSE]
     IN /\ store' = res.table
        /\ one' = IF res.failed
                    THEN [one EXCEPT !.pc = "done",
                                     !.task = Rejected(t, "duplicate"),
                                     !.resp = [NoOneResponse EXCEPT !.status = 500]]
                    ELSE [one EXCEPT !.task = [t EXCEPT !.pc = "stamp",
                                                        !.added = BagCardinality(res.table)
                                                                    - BagCardinality(store)]]
  /\ UNCHANGED <<feedVars, clf, bulk, lastFetched, call, home>>

\* fetch, lines 160-174
OneStamp ==
  /\ one.pc = "running" /\ one.task.pc = "stamp"
  /\ one' = [one EXCEPT !.pc = "done",
                        !.task = [@ EXCEPT !.pc = "fulfilled", !.stamped = TRUE],
                        !.resp = [status |-> 200, newVideosAdded |-> Len(one.task.newVideos),
                                  totalFetched |-> one.task.totalFetched,
                                  quotaExceeded |-> FALSE]]
  /\ lastFetched' = [lastFetched EXCEPT ![one.user][one.channelId] = one.now]
  /\ UNCHANGED <<feedVars, clf, store, bulk, call, home>>

(***************************************************************************)
(* Specification: one refresh of all channels and one refresh of a single  *)
(* channel of the same user side by side, from a table that holds some of  *)
(* the listed items already.                                               *)
(***************************************************************************)
RefreshScenarios == {"known", "paging", "trailing"}

KnownOfA == {{}, {T1}, {T2, T1}, {T3, T1}, {T4, T3, T2, T1}}

KnownOfB == {{}, {T25}}

InitRefresh ==
  /\ scenario \in RefreshScenarios
  /\ channels = [u \in Users |->
                   IF u = "u1"
                     THEN <<[channelId |-> "A", isEnabled |-> TRUE],
                            [channelId |-> "B", isEnabled |-> TRUE]>>
                     ELSE <<>>]
  /\ cache = [u \in Users |-> NoEntry]
  /\ now = 0
  /\ req = [r \in Slots |-> IdleReq]
  /\ prev = NoPrev
  /\ marked = [u \in Users |-> {}]
  /\ lastPut = [u \in Users |-> NoPut]
  /\ epoch = [u \in Users |-> 0]
  /\ chg = NoChange
  /\ clf = NoClassification
  /\ \E ka \in KnownOfA, kb \in KnownOfB :
       store = SetToBag({RowOf("u1", v) : v \in ka \cup kb} \cup {RowOf("u2", T4)})
  /\ bulk = NoBulk
  /\ one = NoOne
  /\ lastFetched = [u \in Users |-> [c \in ChannelNames |-> Absent]]
  /\ call = NoCall
  /\ home = NoHome

RefreshAll == BulkStart("u1")

AllExisting == \E c \in ChannelNames : BulkExisting(c)

AllPage == \E c \in ChannelNames, outcome \in Outcomes : BulkPage(c, outcome)

AllInsert == \E c \in ChannelNames : BulkInsert(c)

AllStamp == \E c \in ChannelNames : BulkStamp(c)

RefreshOne == \E c \in ChannelNames : OneStart("u1", c)

OneWalk == \E outcome \in Outcomes : OnePage(outcome)

NextRefresh ==
  \/ RefreshAll \/ AllExisting \/ AllPage \/ AllInsert \/ AllStamp \/ BulkTally
  \/ RefreshOne \/ OneExisting \/ OneWalk \/ OneInsert \/ OneStamp

SpecRefresh == InitRefresh /\ [][NextRefresh]_vars

(***************************************************************************)
(* Specification: requests with any page and type parameter, one after     *)
(* another, every upstream call succeeding.                                *)
(***************************************************************************)
RawPages == {<<>>, <<"1">>, <<"2">>, <<"0">>, <<"-", "1">>, <<"a", "b", "c">>}

RawTypes == {"", "all", "videos", "shorts", "bogus"}

InputScenarios == {"paging", "known"}

InitInput == Init /\ scenario \in InputScenarios

RequestRaw == \E u \in Users, rawPage \in RawPages, rawType \in RawTypes :
                BeginRaw(1, u, rawPage, rawType)

NextInput == RequestRaw \/ Resume \/ InitialOk \/ FillOk

SpecInput == InitInput /\ [][NextInput]_vars

(***************************************************************************)
(* Specification: the two requests the page sends side by side when it      *)
(* loads (type videos and type shorts of one user), and the ones that       *)
(* follow in each of the two slots; every upstream call succeeds, the       *)
(* entry neither expires nor is invalidated.                                *)
(***************************************************************************)
PairScenarios == {"paging", "trailing", "known"}

InitPair == Init /\ scenario \in PairScenarios

RequestPair ==
  \E r \in Slots, p \in Pages : Begin(r, "u1", p, IF r = 1 THEN "videos" ELSE "shorts")

NextPair == RequestPair \/ Resume \/ InitialOk \/ FillOk

SpecPair == InitPair /\ [][NextPair]_vars

(***************************************************************************)
(* Specification: the client page fills one tab, page after page, every     *)
(* upstream call succeeding and the cache entry living on.                  *)
(***************************************************************************)
Tabs == {"videos", "shorts"}

InitHome == Init

OpenTab == \E type \in Tabs : HomeLoad(type)

NextHome == OpenTab \/ HomeLoadMore \/ HomeReceive \/ Resume \/ InitialOk \/ FillOk

SpecHome == InitHome /\ [][NextHome]_vars

(***************************************************************************)
(* Specification: calls of getChannelVideosPage one after another, for any  *)
(* channel of any catalogue, with a page token the catalogue hands out and  *)
(* with or without the playlist id, the remote API answering each remote    *)
(* call in any of the ways it can.                                          *)
(***************************************************************************)
TokensOf(scn, c) ==
  {NoToken} \cup {Scenarios[scn].pages[c][i].nextPageToken :
                    i \in 1..Len(Scenarios[scn].pages[c])}

InitClient == Init

ListPage ==
  \E c \in ChannelNames :
    \E token \in TokensOf(scenario, c), playlistId \in {NoPlaylist, UploadsPlaylist[c]} :
      /\ Len(Scenarios[scenario].pages[c]) = 0 => playlistId = NoPlaylist
      /\ ClientStart(c, PAGE_SIZE_PER_CHANNEL, token, playlistId)

RemoteChannels == \E answer \in Answers : ChannelsAnswered(answer)

RemotePlaylistItems == \E answer \in Answers : PlaylistItemsAnswered(answer)

RemoteVideos == \E answer \in Answers : VideosAnswered(answer)

NextClient == ListPage \/ RemoteChannels \/ RemotePlaylistItems \/ RemoteVideos

SpecClient == InitClient /\ [][NextClient]_vars

(***************************************************************************)
(* Properties                                                              *)
(***************************************************************************)
Done(r) == req[r].pc = "done"

UniqueIds(videos) ==
  \A i, j \in 1..Len(videos) : i # j => videos[i].id # videos[j].id

NonIncreasing(videos) ==
  \A i \in 1..Len(videos) - 1 : videos[i].publishedAt >= videos[i + 1].publishedAt

\* C1: a single feed page request never issues more than 3 fan-out rounds
\* (passes of fetchNextPages that call at least one source), whatever the
\* upstream returns and whatever the cache held.
C1_RoundCap == \A r \in Slots : req[r].fanouts <= MAX_ROUNDS_PER_REQUEST

\* C2: no two items of the request's buffer, of the cached buffer or of a
\* returned page share an identity, and a round whose returned items are all
\* buffered already leaves the buffer as it was.
C2_NoDuplicates ==
  /\ \A u \in Users : UniqueIds(cache[u].videos)
  /\ \A r \in Slots :
       /\ UniqueIds(req[r].allVideos)
       /\ UniqueIds(req[r].resp.videos)
       /\ (req[r].round.kind # "none"
             /\ Ids(req[r].round.newVideos) \subseteq Ids(req[r].round.preVideos))
            => req[r].allVideos = req[r].round.preVideos

\* C2 witness: a fill round returned only items that were buffered already,
\* next to a cached buffer fed by overlapping pages.
C2_Witness ==
  \E r \in Slots :
    /\ req[r].round.kind = "loop"
    /\ req[r].round.newVideos # <<>>
    /\ Ids(req[r].round.newVideos) \subseteq Ids(req[r].round.preVideos)
    /\ Len(cache[req[r].user].videos) >= 3

\* C3: every buffer written to the cache and every returned page is ordered
\* non-increasing by publish timestamp.
C3_Ordered ==
  /\ \A u \in Users : NonIncreasing(cache[u].videos)
  /\ \A r \in Slots : NonIncreasing(req[r].allVideos) /\ NonIncreasing(req[r].resp.videos)

\* C3 witness: a request that went through several rounds on pages that do
\* not arrive in timestamp order has answered with more than one item.
C3_Witness ==
  \E r \in Slots :
    /\ Done(r) /\ scenario = "overlap" /\ req[r].fanouts >= 2
    /\ Len(req[r].resp.videos) >= 2
    /\ Len(cache[req[r].user].videos) >= 4

\* C4: a source whose latest successful page carried no next token is not
\* called again by any later round or request of that user (the cache entry
\* neither expires nor is invalidated in this specification).
C4_ExhaustedNeverQueried ==
  \A r \in Slots : req[r].round.queried \cap req[r].round.markedBefore = {}

\* C5: in a round where one source fails and another succeeds, the failing
\* source's state is what it was before the round and it stays unexhausted,
\* the succeeding source's items are in the buffer (and in the cache), and the
\* answer, once given, is a page cut from that buffer.
C5_FailureIsolation ==
  \A r \in Slots :
    LET q == req[r]
        rd == q.round
        failed == {c \in rd.queried : rd.outcome[c] # "ok"}
        succeeded == {c \in rd.queried : rd.outcome[c] = "ok"}
        filtered == filterByType(q.allVideos, q.type)
    IN (rd.kind # "none" /\ failed # {} /\ succeeded # {}) =>
         /\ \A c \in failed :
              /\ q.channelStates[c] = StateOf(rd.preStates, c)
              /\ ~q.channelStates[c].exhausted
         /\ \A c \in succeeded :
              LET page == getChannelVideosPage(scenario, c, PAGE_SIZE_PER_CHANNEL,
                            StateOf(rd.preStates, c).nextPageToken,
                            StateOf(rd.preStates, c).playlistId)
              IN /\ Ids(page.videos) \subseteq Ids(q.allVideos)
                 /\ page.videos # <<>> => Ids(page.videos) \subseteq Ids(cache[q.user].videos)
                 /\ q.channelStates[c].nextPageToken = page.nextPageToken
         /\ q.pc \in {"loop", "done"}
         /\ Done(r) =>
              \A i \in 1..Len(filtered) :
                ((q.page - 1) * PerPage < i /\ i <= q.page * PerPage)
                  => \E k \in 1..Len(q.resp.videos) : q.resp.videos[k] = filtered[i]

\* C5 witness: source A was denied for quota while B returned its page, and
\* the request has answered with B's item.
C5_Witness ==
  \E r \in Slots :
    /\ Done(r) /\ req[r].round.kind # "none"
    /\ "A" \in req[r].round.queried /\ req[r].round.outcome["A"] = "quota"
    /\ "B" \in req[r].round.queried /\ req[r].round.outcome["B"] = "ok"
    /\ \E k \in 1..Len(req[r].resp.videos) : req[r].resp.videos[k].channelId = "B"

SameCall(r) ==
  /\ Done(r) /\ prev.valid
  /\ prev.user = req[r].user /\ prev.page = req[r].page /\ prev.type = req[r].type

\* C6: a response to a request that was denied for quota can be told from a
\* response to a request that was not: no two answers that are equal field by
\* field come from one request that saw QuotaExceeded and one that did not.
C6_QuotaIndicated ==
  \A r \in Slots :
    (Done(r) /\ prev.valid /\ prev.resp = req[r].resp) => prev.sawQuota = req[r].sawQuota

\* C7: in the paging scenario (A = [T4,T3],[T2,T1], B = [T2.5], page size 3),
\* from an empty cache and with no failing call, page 1 of type all is
\* T4,T3,T2.5 with hasMore = true and the page 2 asked next is T2,T1 with
\* hasMore = false.
C7_PagingScenario ==
  \A r \in Slots :
    LET q == req[r]
        clean == Done(r) /\ scenario = "paging" /\ q.user = "u1" /\ q.type = "all"
                   /\ ~q.sawFailure
    IN /\ (clean /\ q.page = 1 /\ q.fresh)
            => q.resp.videos = <<T4, T3, T25>> /\ q.resp.hasMore
       /\ (clean /\ q.page = 2 /\ prev.valid /\ prev.user = "u1" /\ prev.type = "all"
             /\ prev.page = 1 /\ prev.fresh /\ ~prev.sawFailure)
            => /\ prev.resp.videos = <<T4, T3, T25>> /\ prev.resp.hasMore
               /\ q.resp.videos = <<T2, T1>> /\ ~q.resp.hasMore

\* C7 witness: page 2 has been answered right after page 1 was answered from
\* an empty cache, neither request having met a failure.
C7_Witness ==
  \E r \in Slots :
    /\ Done(r) /\ scenario = "paging" /\ req[r].user = "u1" /\ req[r].type = "all"
    /\ req[r].page = 2 /\ ~req[r].sawFailure /\ ~req[r].fresh
    /\ prev.valid /\ prev.user = "u1" /\ prev.type = "all" /\ prev.page = 1
    /\ prev.fresh /\ ~prev.sawFailure

\* C8: two successive calls with the same user, page and type (the upstream
\* catalogue is fixed, and neither call met a failing source) return the same
\* set of items.
C8_Idempotent ==
  \A r \in Slots :
    (SameCall(r) /\ ~prev.sawFailure /\ ~req[r].sawFailure)
      => Ids(prev.resp.videos) = Ids(req[r].resp.videos)

\* C9 as claimed: a fill-loop round that adds no new identity to the buffer
\* ends the fill loop; the request starts no further round.
C9_EarlyStopNothingAdded ==
  \A r \in Slots :
    (req[r].round.kind = "loop"
       /\ Ids(req[r].round.newVideos) \subseteq Ids(req[r].round.preVideos))
      => Done(r)

\* C9 amended: a fill-loop round in which the sources returned no item at all
\* ends the fill loop, also when sources are left unexhausted; the request
\* answers without starting a further round.
C9_EarlyStopNothingReturned ==
  \A r \in Slots :
    (req[r].round.kind = "loop" /\ req[r].round.newVideos = <<>>)
      => Done(r) /\ req[r].rounds < MAX_ROUNDS_PER_REQUEST

\* C9 witness: a fill round returned nothing, the request has answered, a
\* source is still unexhausted and the round budget was not used up.
C9_Witness ==
  \E r \in Slots :
    /\ req[r].round.kind = "loop" /\ req[r].round.newVideos = <<>>
    /\ Done(r) /\ hasMoreChannels(req[r].channelStates)
    /\ req[r].rounds < MAX_ROUNDS_PER_REQUEST - 1
    /\ Len(filterByType(req[r].allVideos, req[r].type)) <= req[r].page * PerPage

\* C10: in every response hasMore is true exactly when the page's end index
\* is below the number of buffered items of the requested type or some source
\* is not exhausted, and total is that number of buffered items.
C10_HasMoreAndTotal ==
  \A r \in Slots :
    LET q == req[r]
        ofType == {i \in 1..Len(q.allVideos) :
                     \/ q.type = "all"
                     \/ q.type = "videos" /\ ~q.allVideos[i].isShort
                     \/ q.type = "shorts" /\ q.allVideos[i].isShort}
        open == {c \in Range(q.channelIds) : ~q.channelStates[c].exhausted}
    IN Done(r) =>
         /\ q.resp.hasMore <=> (q.page * PerPage < Cardinality(ofType) \/ open # {})
         /\ q.resp.total = Cardinality(ofType)

\* C10 witness: a response whose page reaches the end of the buffered items
\* reports hasMore because a source is not exhausted, and a non-zero total.
C10_Witness ==
  \E r \in Slots :
    /\ Done(r) /\ req[r].resp.hasMore /\ req[r].resp.total > 0
    /\ req[r].page * PerPage >= req[r].resp.total
    /\ req[r].type = "shorts"

\* C11: a cache lookup of a user gives the buffer and per-source state of the
\* last setCachedVideos for that user when less than 5 minutes have passed
\* since it and no invalidateCache came in between, and a miss otherwise (no
\* entry, 5 minutes or more, or invalidated); a setCachedVideos leaves exactly
\* the writer's buffer and states in the entry, stamped with the current time.
C11_CacheContract ==
  [][\A r \in Slots :
       LET u == req[r].user
           lp == lastPut[u]
       IN /\ (req[r].pc = "loaded" /\ req'[r].pc # "loaded") =>
               IF lp.live /\ now - lp.at < CACHE_DURATION
                 THEN /\ req'[r].got.hit
                      /\ req'[r].got.videos = lp.videos
                      /\ req'[r].got.channelStates = lp.channelStates
                      /\ req'[r].got.putAt = lp.at
                 ELSE ~req'[r].got.hit
          /\ (req'[r] # req[r]
                /\ \/ req[r].pc = "initial"
                   \/ req[r].pc = "loop" /\ req'[r].round.newVideos # <<>>) =>
               cache'[u] = [present |-> TRUE, videos |-> req'[r].allVideos,
                            timestamp |-> now, channelStates |-> req'[r].channelStates]
     ]_vars

\* C11 witness: a lookup made half a time-to-live after the entry was written
\* has given that entry, and the request has answered from it.
C11_Witness ==
  \E r \in Slots :
    /\ Done(r) /\ req[r].got.hit
    /\ req[r].got.readAt - req[r].got.putAt = TickStep
    /\ req[r].got.videos # <<>>
    /\ req[r].resp.videos # <<>>

\* C12: the cache entry of a user changes only in a step of that user (a
\* round of one of the user's requests, or the invalidation that ends the
\* user's own channel change); setCachedVideos and invalidateCache for one
\* user leave every other user's entry as it is; and a request takes its
\* buffer and per-source state from its own user's entry and answers with
\* items of that buffer only.
C12_PerUser ==
  [][/\ \A v \in Users :
          /\ cache'[v] # cache[v] =>
               \/ \E r \in Slots : req[r].user = v /\ req'[r] # req[r]
                                     /\ req[r].pc \in {"initial", "loop"}
               \/ chg.pc = "written" /\ chg.user = v /\ chg'.pc = "idle"
          /\ \A u \in Users \ {v} :
               /\ setCachedVideos(cache, now, u, <<>>, EmptyFn)[v] = cache[v]
               /\ invalidateCache(cache, u)[v] = cache[v]
     /\ \A r \in Slots :
          /\ (req[r].pc = "loaded" /\ req'[r].pc # "loaded" /\ req'[r].got.hit) =>
               /\ req'[r].allVideos = cache[req[r].user].videos
               /\ req'[r].channelStates = cache[req[r].user].channelStates
          /\ Ids(req'[r].resp.videos) \subseteq Ids(req'[r].allVideos)
    ]_vars

\* C12 witness: both users hold an entry, the two buffers differ, and a request
\* of u2 has been answered from u2's entry.
C12_Witness ==
  /\ cache["u1"].present /\ cache["u2"].present
  /\ cache["u1"].videos # cache["u2"].videos
  /\ \E r \in Slots :
       /\ Done(r) /\ req[r].user = "u2" /\ req[r].got.hit
       /\ req[r].resp.videos # <<>>
       /\ req[r].got.videos = cache["u2"].videos

\* C13: a request that began after a change of its user's channel rows had
\* returned is never served a cache entry written by a request that had loaded
\* the rows before that change: the entry it gets reflects at least the
\* changes that had returned when it began.
C13_NoStaleEntry ==
  \A r \in Slots : req[r].got.hit => req[r].got.epoch >= req[r].doneEpoch

EnabledIds(rows) == {rows[i].channelId : i \in {j \in 1..Len(rows) : rows[j].isEnabled}}

\* C14: every item of a returned feed page belongs to a source that was
\* enabled in the channel rows the request loaded.
C14_EnabledOnly ==
  \A r \in Slots :
    Done(r) =>
      \A i \in 1..Len(req[r].resp.videos) :
        req[r].resp.videos[i].channelId \in EnabledIds(req[r].sources)

Seconds0(n) == IF n = Absent THEN 0 ELSE n

\* C15: for a duration written out from hour, minute and second components
\* (a missing component counts as 0), each classifier answers true exactly
\* when hours*3600 + minutes*60 + seconds <= 180; PT3M is short-form and
\* PT3M1S is not.
C15_Threshold ==
  (clf.pc = "classified" /\ clf.kind = "hms") =>
    LET short == Seconds0(clf.h) * 3600 + Seconds0(clf.m) * 60 + Seconds0(clf.sec) <= 180
    IN /\ clf.client <=> short
       /\ clf.stored <=> short
       /\ clf.storedAll <=> short
       /\ clf.duration = <<"P", "T", "3", "M">> => clf.client /\ clf.stored
       /\ clf.duration = <<"P", "T", "3", "M", "1", "S">> => ~clf.client /\ ~clf.stored

\* C15 witness: PT3M, exactly 180 seconds, has been classified short-form.
C15_Witness ==
  /\ clf.pc = "classified" /\ clf.kind = "hms"
  /\ clf.duration = <<"P", "T", "3", "M">> /\ clf.m = 3
  /\ clf.client /\ clf.stored /\ clf.storedAll

\* PT followed by at least one of digits-H, digits-M, digits-S, in this order,
\* and nothing else
IsHourMinuteSecond(duration) ==
  /\ Len(duration) > 2 /\ duration[1] = "P" /\ duration[2] = "T"
  /\ LET h == Group(duration, 3, "H")
         m == Group(duration, h.next, "M")
         sec == Group(duration, m.next, "S")
     IN sec.next = Len(duration) + 1

\* C16: the bare string PT, the empty or absent duration and every string that
\* is not an hour/minute/second duration are classified not short-form.
C16_BadInputIsLong ==
  (clf.pc = "classified" /\ ~IsHourMinuteSecond(clf.duration)) =>
    ~clf.client /\ ~clf.stored /\ ~clf.storedAll

\* the listing of a channel, newest first, as the page tokens chain it
RECURSIVE ListingFrom(_, _, _)
ListingFrom(c, token, fuel) ==
  LET page == getChannelVideosPage(scenario, c, 50, token, NoPlaylist)
  IN IF page.nextPageToken = NoToken \/ fuel = 0 THEN page.videos
     ELSE page.videos \o ListingFrom(c, page.nextPageToken, fuel - 1)

Listing(c) == ListingFrom(c, NoToken, Len(Scenarios[scenario].pages[c]))

\* position of the first listed item whose identity is known, or one past the end
FirstKnown(listing, existing) ==
  LET at == {i \in 1..Len(listing) : listing[i].id \in existing}
  IN IF at = {} THEN Len(listing) + 1 ELSE CHOOSE i \in at : \A j \in at : i <= j

\* pages of the chain up to the one that holds position k (all of them if none does)
RECURSIVE PagesUpTo(_, _, _)
PagesUpTo(c, token, k) ==
  LET page == getChannelVideosPage(scenario, c, 50, token, NoPlaylist)
  IN IF k <= Len(page.videos) \/ page.nextPageToken = NoToken THEN 1
     ELSE 1 + PagesUpTo(c, page.nextPageToken, k - Len(page.videos))

WalkedRight(t, u, c) ==
  LET listing == Listing(c)
      k == FirstKnown(listing, t.existing)
  IN t.pc \in {"insert", "stamp", "fulfilled"} =>
       /\ [i \in 1..Len(t.newVideos) |-> t.newVideos[i].videoId]
            = [i \in 1..k - 1 |-> listing[i].id]
       /\ \A i \in 1..Len(t.newVideos) :
            t.newVideos[i].userId = u /\ t.newVideos[i].channelId = c
       /\ t.fetched = PagesUpTo(c, NoToken, k)
       /\ t.reachedExisting <=> k <= Len(listing)
       /\ t.pc \in {"stamp", "fulfilled"} =>
            \A i \in 1..Len(t.newVideos) :
              \E x \in BagToSet(store) : Key(x) = Key(t.newVideos[i])

Fulfilled == {c \in DOMAIN bulk.task : bulk.task[c].pc = "fulfilled"}

CountOf(c) == IF c \in Fulfilled THEN Len(bulk.task[c].newVideos) ELSE 0

\* C18: when the refresh of all channels has answered, every channel's task has
\* settled, each task that succeeded has its staged items stored whatever
\* happened to the others, the answer is a result whose count is the sum of
\* the counts of the tasks that succeeded, and it carries the quota indicator
\* exactly when some task was denied for quota.
C18_BulkIsolation ==
  (bulk.pc = "done" /\ bulk.channelIds # <<>>) =>
    /\ bulk.resp.status = 200
    /\ \A c \in DOMAIN bulk.task : Settled(bulk.task[c])
    /\ \A c \in Fulfilled :
         \A i \in 1..Len(bulk.task[c].newVideos) :
           \E x \in BagToSet(store) : Key(x) = Key(bulk.task[c].newVideos[i])
    /\ bulk.resp.totalNew = CountOf("A") + CountOf("B")
    /\ bulk.resp.channels = Len(bulk.channelIds)
    /\ bulk.resp.quotaExceeded <=>
         \E c \in DOMAIN bulk.task :
           bulk.task[c].pc = "rejected" /\ bulk.task[c].reason = "quota"

\* C18 witness: the walk of A was denied for quota, the walk of B staged and
\* inserted its item, and the answer counts that item and carries the indicator.
C18_Witness ==
  /\ bulk.pc = "done" /\ DOMAIN bulk.task = {"A", "B"}
  /\ bulk.task["A"].pc = "rejected" /\ bulk.task["A"].reason = "quota"
  /\ bulk.task["B"].pc = "fulfilled" /\ Len(bulk.task["B"].newVideos) = 1
  /\ bulk.resp.totalNew = 1 /\ bulk.resp.quotaExceeded
  /\ \E x \in BagToSet(store) : x.userId = "u1" /\ x.videoId = "T25"

\* C19: no refresh fails on a duplicate identity, and the table holds every
\* identity of a user at most once, however the refresh of all channels and the
\* refresh of one channel interleave.
C19_ConcurrentRefresh ==
  /\ \A c \in DOMAIN bulk.task : bulk.task[c].reason # "duplicate"
  /\ one.task.reason # "duplicate"
  /\ \A x \in BagToSet(store) : CopiesIn(x, store) = 1
  /\ \A x, y \in BagToSet(store) : Key(x) = Key(y) => x = y

\* C19 witness: both refreshes read the table before either inserted, both
\* staged the same items of A, and both have finished.
C19_Witness ==
  /\ "A" \in DOMAIN bulk.task /\ one.channelId = "A"
  /\ bulk.task["A"].pc = "fulfilled" /\ one.task.pc = "fulfilled"
  /\ bulk.task["A"].newVideos # <<>>
  /\ bulk.task["A"].newVideos = one.task.newVideos
  /\ one.resp.status = 200

\* C20: a request whose page parameter is not a number, zero or negative, or
\* whose type is not one of all, videos, shorts, makes no upstream call, writes
\* no cache entry and is not answered with a feed page.
C20_InvalidRejected ==
  \A r \in Slots :
    (req[r].pc # "idle" /\ (req[r].nan \/ req[r].page < 1 \/ req[r].type \notin Types)) =>
      /\ req[r].fanouts = 0
      /\ req[r].round.kind = "none"
      /\ req[r].resp = NoResponse

\* every call the request made failed and nothing is buffered: a successful
\* call leaves a playlist id or the exhausted flag in the source's state
AllCallsFailed(q) ==
  /\ q.fanouts >= 1 /\ q.allVideos = <<>>
  /\ \A c \in Range(q.channelIds) : StateOf(q.channelStates, c) = InitialState

\* the last round of the request had a failing and a succeeding source
PartialFailure(q) ==
  /\ q.round.kind # "none"
  /\ \E c \in q.round.queried : q.round.outcome[c] # "ok"
  /\ \E c \in q.round.queried : q.round.outcome[c] = "ok"

\* C21: a request in which every source failed and nothing was ever buffered
\* for the user is not answered with a feed page (it gets an explicit
\* failure), and a request whose last round failed for some sources only is
\* answered with the page cut from the buffer and hasMore = true.
C21_FailureBehaviour ==
  \A r \in Slots :
    Done(r) =>
      /\ AllCallsFailed(req[r]) => req[r].resp.page = Absent
      /\ PartialFailure(req[r]) =>
           /\ req[r].resp.hasMore
           /\ req[r].resp.videos =
                Slice(filterByType(req[r].allVideos, req[r].type),
                      (req[r].page - 1) * PerPage, req[r].page * PerPage)

\* C22: once a request has completed a fan-out round, the cache entry of its
\* user holds the request's merged buffer and its per-source cursors and
\* exhaustion flags, whatever the round returned; so they agree when the
\* request answers (no other request, invalidation or expiry in between).
C22_CacheFollowsRound ==
  \A r \in Slots :
    (req[r].round.kind # "none" /\ req[r].pc \in {"loop", "done"}) =>
      /\ cache[req[r].user].present
      /\ cache[req[r].user].videos = req[r].allVideos
      /\ cache[req[r].user].channelStates = req[r].channelStates

\* C23: every fan-out round of a request was started on an empty buffer, or
\* with fewer buffered items of the requested type than the page's end index
\* (page * page size) and a source that was not exhausted; a request whose
\* filtered buffer holds page * page size items makes no upstream call.
C23_FetchOnlyWhenNeeded ==
  \A r \in Slots :
    LET rd == req[r].round
    IN rd.kind # "none" =>
         \/ rd.preVideos = <<>>
         \/ /\ Len(filterByType(rd.preVideos, req[r].type)) < req[r].page * PerPage
            /\ hasMoreChannels(rd.preStates)

\* C24: once a call of a request has been denied for quota, the request starts
\* no further fan-out round: it is never suspended at the fetchNextPages of
\* the fill loop after a round in which it saw QuotaExceeded.
C24_StopOnQuota ==
  \A r \in Slots : req[r].sawQuota => req[r].pc # "loop"

Denied == \E i \in 1..Len(call.asked) : call.asked[i].answer = "quota"

\* the entries of the page the call was asked for, as the catalogue lists them
Listed ==
  LET pages == Scenarios[scenario].pages[call.channelId]
  IN IF Len(pages) = 0 THEN <<>>
     ELSE pages[IF call.pageToken = NoToken THEN 1 ELSE call.pageToken].videos

\* with every remote call answered 200 the call returns the page that the
\* aggregator and the refresh routes are given by getChannelVideosPage above
ClientAgrees ==
  (call.pc = "returned" /\ \A i \in 1..Len(call.asked) : call.asked[i].answer = "ok") =>
    call.page = getChannelVideosPage(scenario, call.channelId, call.maxResults,
                                     call.pageToken, call.uploadsPlaylistId)

\* C25: a call of getChannelVideosPage that has ended ended with QuotaExceeded
\* exactly when one of its remote calls (channels, playlistItems, videos) was
\* denied for quota, and a page it returned has every entry classified by the
\* duration the remote API reports for it.
C25_QuotaClassified ==
  call.pc \in {"returned", "thrown"} =>
    /\ Denied <=> (call.pc = "thrown" /\ call.thrown = "quota")
    /\ call.pc = "returned" =>
         /\ Len(call.page.videos) = Len(Listed)
         /\ \A i \in 1..Len(call.page.videos) :
              call.page.videos[i].isShort = isShortDuration(DurationOf(Listed[i]))

\* the refresh tasks of channel c: the one of the refresh of all channels and
\* the one of the single-channel refresh
TasksOf(c) ==
  (IF c \in DOMAIN bulk.task THEN {bulk.task[c]} ELSE {})
    \cup (IF one.channelId = c /\ one.task.pc # "none" THEN {one.task} ELSE {})

CursorRank(c, state) ==
  IF state.exhausted THEN Len(Scenarios[scenario].pages[c]) + 1
  ELSE IF state.nextPageToken = NoToken THEN 1 ELSE state.nextPageToken

\* C27: a write of a user's cache entry never replaces the entry by one with
\* fewer buffered items or with an earlier cursor for some source, however two
\* requests of the user interleave (no invalidation, no expiry).
C27_NoLostUpdate ==
  [][\A u \in Users :
       (cache[u].present /\ cache'[u] # cache[u]) =>
         /\ Len(cache'[u].videos) >= Len(cache[u].videos)
         /\ \A c \in DOMAIN cache[u].channelStates :
              CursorRank(c, StateOf(cache'[u].channelStates, c))
                >= CursorRank(c, cache[u].channelStates[c])
    ]_vars

\* C28: when the client has asked for pages 1..n of a tab one after another
\* (no failing upstream call, the cache entry living on) and shows what it
\* got, the items it shows are the first n * page size items of the buffer of
\* that type as it is after the last request: none twice, none skipped.
C28_PagesConsistent ==
  home.pc = "shown" =>
    home.videos = Slice(filterByType(req[1].allVideos, home.type), 0, home.page * PerPage)

\* the ids of the items on the pages of source c that precede the cursor
BeforeCursor(c, state) ==
  LET pages == Scenarios[scenario].pages[c]
  IN UNION {Ids(pages[k].videos) : k \in {j \in 1..Len(pages) : j < CursorRank(c, state)}}

\* a buffer and the stored cursors agree: nothing before a cursor is missing
Threaded(videos, channelStates) ==
  \A c \in DOMAIN channelStates : BeforeCursor(c, channelStates[c]) \subseteq Ids(videos)

\* the cursor a round passed for source c is none, or the one an upstream page
\* returned whose items the buffer held before the round
PassedRecorded(q, c) ==
  LET token == StateOf(q.round.preStates, c).nextPageToken
      pages == Scenarios[scenario].pages[c]
  IN \/ token = NoToken
     \/ \E k \in 1..Len(pages) :
          /\ pages[k].nextPageToken = token
          /\ Ids(pages[k].videos) \subseteq Ids(q.round.preVideos)

\* the ids of the upstream items of the requested type of the sources of q
UpstreamOfType(q) ==
  UNION {UNION {Ids(filterByType(Scenarios[scenario].pages[c][k].videos, q.type)) :
                  k \in 1..Len(Scenarios[scenario].pages[c])} :
           c \in Range(q.channelIds)}

\* C29: for each source the buffer, in the request and in the cache entry, holds
\* every item of every upstream page before the stored cursor; the cursor passed
\* to a call is none or one a recorded call returned; and a response with
\* hasMore = false means every upstream item of the requested type of every
\* source of the request is in the buffer.
C29_CursorThreading ==
  /\ \A u \in Users : cache[u].present => Threaded(cache[u].videos, cache[u].channelStates)
  /\ \A r \in Slots :
       LET q == req[r]
       IN /\ q.pc \in {"loop", "done"} => Threaded(q.allVideos, q.channelStates)
          /\ q.round.kind # "none" => \A c \in q.round.queried : PassedRecorded(q, c)
          /\ (q.pc = "done" /\ ~q.nan /\ ~q.resp.hasMore) =>
               UpstreamOfType(q) \subseteq Ids(q.allVideos)

\* the rows the fulfilled tasks of the bulk refresh added to the table
RECURSIVE AddedByBulk(_)
AddedByBulk(channelIds) ==
  IF channelIds = <<>> THEN 0
  ELSE (IF bulk.task[Head(channelIds)].pc = "fulfilled"
          THEN bulk.task[Head(channelIds)].added ELSE 0)
       + AddedByBulk(Tail(channelIds))

\* C30: the count of new items a refresh reports is the number of rows that
\* refresh added to the table, also when another refresh of the same channel
\* runs at the same time and the duplicate-ignoring insert skips staged rows.
C30_ReportedIsAdded ==
  /\ (one.pc = "done" /\ one.resp.status = 200) =>
       one.resp.newVideosAdded = one.task.added
  /\ bulk.pc = "done" => bulk.resp.totalNew = AddedByBulk(bulk.channelIds)

====
